---- MODULE Spec2Model ----
(***************************************************************************)
(* Model of the WebSocket negotiation layer of server/routes.ts:           *)
(* the handshake (setupWebSocketServer), the two registry maps             *)
(* (userSockets, negotiationRooms), the frame handlers with their storage  *)
(* awaits as interleaving points, and connection cleanup.                  *)
(*                                                                         *)
(* Every `await storage.x(...)` is one atomic step of the handler that     *)
(* issued it: the storage call takes effect (or throws) and the handler    *)
(* runs on to its next await.  Handlers of different frames interleave at  *)
(* these steps, also handlers of two frames of the same connection, since  *)
(* ws.on('message', async ...) starts a handler per frame.                 *)
(*                                                                         *)
(* Amounts are counted in thousandths of a currency unit so that the       *)
(* decimal(10,2) columns can be modelled by what they do (rounding).       *)
(*                                                                         *)
(* The second part models the client manager NegotiationWebSocket of       *)
(* design_guidelines.md: its fields, the browser sockets it creates, its   *)
(* timers and its token requests.  The specifications of the server leave  *)
(* the client as constructed, the specification of the client leaves the   *)
(* server as constructed.                                                  *)
(***************************************************************************)
EXTENDS Integers, Sequences, FiniteSets, TLC

\* ---------------------------------------------------------------- bounds
\* the number of inputs from outside (upgrade requests, transport closes,
\* inbound frames) in one run, and the number of connection handles
MaxEvents == 2
MaxConns == 4
\* the client manager: the calls of the application and clock steps in one
\* run, the sockets it creates, the token requests pending at once and the
\* value the retry counter is followed to
MaxClientEvents == 3
MaxSockets == 3
MaxRequests == 2
MaxRetry == 6

\* ------------------------------------------------------------ the universe
Users == {"U1", "U2", "U3"}
ConnSeq == <<"c1", "c2", "c3", "c4", "c5">>
Conns == {ConnSeq[i] : i \in 1..MaxConns}
NegIds == {"N1"}
Amounts == {1000, 2005}
Tokens == {"missing", "invalid", "expired", "nouserid"} \cup Users
StoredStatuses == {"active", "accepted", "rejected", "completed", "cancelled"}
StatusEnum == {"active", "completed", "cancelled"}
Terminal == {"completed", "cancelled"}
MutatingTypes == {"negotiation_message", "negotiation_offer",
                  "negotiation_counter", "negotiation_accept",
                  "negotiation_reject", "negotiation_status"}

VARIABLES negotiations, messages, isOnline, userSockets, negotiationRooms,
          conn, tasks, sent, events, client, clock, hook

vars == <<negotiations, messages, isOnline, userSockets, negotiationRooms,
          conn, tasks, sent, events, client, clock, hook>>

\* the state of the server and the state of the client
svars == <<negotiations, messages, isOnline, userSockets, negotiationRooms,
           conn, tasks, sent>>
cvars == <<client, clock, hook>>

\* one more input from outside
Event == events < MaxEvents /\ events' = events + 1

\* --------------------------------------------------------------- storage
\* decimal(10,2): a value with more than two decimals is rounded to cents
ToDecimal2(a) == ((a + 5) \div 10) * 10

\* a missing row is the record with found = FALSE
getNegotiation(id) ==
    IF id \in DOMAIN negotiations
    THEN [found |-> TRUE, buyerId |-> negotiations[id].buyerId,
          sellerId |-> negotiations[id].sellerId,
          status |-> negotiations[id].status]
    ELSE [found |-> FALSE, buyerId |-> "", sellerId |-> "", status |-> ""]

updateNegotiation(id, amount) ==
    IF id \in DOMAIN negotiations
    THEN [negotiations EXCEPT ![id].currentOffer = ToDecimal2(amount)]
    ELSE negotiations

updateNegotiationStatus(id, status) ==
    IF id \in DOMAIN negotiations
    THEN [negotiations EXCEPT ![id].status = status]
    ELSE negotiations

createMessage(negotiationId, senderId, messageType, amount) ==
    [id |-> Len(messages) + 1, negotiationId |-> negotiationId,
     senderId |-> senderId, messageType |-> messageType,
     amount |-> IF amount = 0 THEN 0 ELSE ToDecimal2(amount)]

\* ----------------------------------------------------------- wire frames
\* an outbound frame: its recipients (to), the inbound frame whose handler
\* sent it (by, 0 for the handshake and cleanup), and its payload
Frame(type, to, by, neg, mt, id, amt, err) ==
    [type |-> type, to |-> to, by |-> by, negotiationId |-> neg,
     messageType |-> mt, id |-> id, amount |-> amt, error |-> err,
     senderId |-> "", users |-> {}]

ErrorFrame(c, by, msg) == Frame("error", {c}, by, "", "", 0, 0, msg)

\* ws.send on each socket of S whose readyState is OPEN
OpenIn(S) == {c \in S : conn[c].readyState = "OPEN"}

SendTo(to, frame) == IF to = {} THEN sent ELSE Append(sent, frame)

\* ---------------------------------------------------------- registry maps
MapAdd(m, k, c) ==
    IF k \in DOMAIN m THEN [m EXCEPT ![k] = @ \cup {c}]
    ELSE [x \in DOMAIN m \cup {k} |-> IF x = k THEN {c} ELSE m[x]]

MapDelete(m, k) == [x \in DOMAIN m \ {k} |-> m[x]]

RoomRemoveKeepsEmptyRoom(m, k, c) ==
    IF k \notin DOMAIN m THEN m ELSE [m EXCEPT ![k] = @ \ {c}]

\* room.delete(ws); if (room.size === 0) negotiationRooms.delete(id)
RoomRemove(m, k, c) ==
    IF k \notin DOMAIN m THEN m
    ELSE IF m[k] \ {c} = {} THEN MapDelete(m, k)
    ELSE [m EXCEPT ![k] = @ \ {c}]

\* negotiationRooms.forEach: remove ws from every room that has it
RemoveFromAllRooms(m, c) ==
    LET keep == {k \in DOMAIN m : m[k] \ {c} # {} \/ c \notin m[k]}
    IN [k \in keep |-> m[k] \ {c}]

broadcastToNegotiation(negotiationId) ==
    IF negotiationId \in DOMAIN negotiationRooms
    THEN OpenIn(negotiationRooms[negotiationId])
    ELSE {}

\* the sockets of every connected user other than userId that are OPEN
broadcastPresenceUpdate(userId) ==
    OpenIn(UNION {userSockets[u] : u \in DOMAIN userSockets \ {userId}})

getConnectedUsers == DOMAIN userSockets

\* ------------------------------------------------------------- handshake
\* jwt.verify(token, wsSecret): throws on a bad signature or an expired
\* token, otherwise yields the decoded payload
jwtVerifyIgnoreExpiration(token) ==
    IF token = "invalid" THEN [throws |-> TRUE, userId |-> ""]
    ELSE IF token = "nouserid" THEN [throws |-> FALSE, userId |-> ""]
    ELSE IF token = "expired" THEN [throws |-> FALSE, userId |-> "U1"]
    ELSE [throws |-> FALSE, userId |-> token]

jwtVerify(token) ==
    IF token \in {"invalid", "expired"} THEN [throws |-> TRUE, userId |-> ""]
    ELSE IF token = "nouserid" THEN [throws |-> FALSE, userId |-> ""]
    ELSE [throws |-> FALSE, userId |-> token]

\* verifyClient: return !!token
verifyClient(token) == token # "missing"

\* ws.close(1008, reason), or the refused upgrade
CloseConn(c, token, reason) ==
    [conn EXCEPT ![c].readyState = "CLOSED", ![c].pc = "ended",
                 ![c].token = token, ![c].closeReason = reason]

\* connection handles are handed out in order: c is the next unused one
NextHandle(c) ==
    \E i \in 1..MaxConns :
        /\ ConnSeq[i] = c
        /\ conn[c].pc = "idle"
        /\ \A j \in 1..(i - 1) : conn[ConnSeq[j]].pc # "idle"

\* wss.on('connection'): from the upgrade request to the first await
Connect(c, token) ==
    /\ NextHandle(c)
    /\ Event
    /\ UNCHANGED <<negotiations, messages, isOnline, negotiationRooms,
                   tasks, sent>>
    /\ IF ~verifyClient(token)
       THEN /\ conn' = CloseConn(c, token, "HTTP 401")
            /\ UNCHANGED userSockets
       ELSE LET decoded == jwtVerify(token) IN
            IF decoded.throws
            THEN /\ conn' = CloseConn(c, token, "Authentication failed")
                 /\ UNCHANGED userSockets
            ELSE IF decoded.userId = ""
            THEN /\ conn' = CloseConn(c, token, "Invalid token payload")
                 /\ UNCHANGED userSockets
            ELSE /\ conn' = [conn EXCEPT ![c].readyState = "OPEN",
                                         ![c].token = token,
                                         ![c].userId = decoded.userId,
                                         ![c].isAuthenticated = TRUE,
                                         ![c].pc = "hs_online"]
                 /\ userSockets' = MapAdd(userSockets, decoded.userId, c)

\* the handshake after `await storage.updateUserOnlineStatus(userId, true)`:
\* presence broadcast (skipped when the write threw), connection_confirmed,
\* then the message/close/error handlers are attached
HandshakeOnline(c, ok) ==
    /\ conn[c].pc = "hs_online"
    /\ LET u == conn[c].userId
           presence == Frame("presence_update", broadcastPresenceUpdate(u),
                             0, "", "online", 0, 0, u)
           s1 == IF ok THEN SendTo(presence.to, presence) ELSE sent
       IN /\ isOnline' = IF ok THEN [isOnline EXCEPT ![u] = TRUE] ELSE isOnline
          /\ sent' = Append(s1, Frame("connection_confirmed", {c}, 0, "", "",
                                      0, 0, u))
    /\ conn' = [conn EXCEPT ![c].pc = "attached", ![c].threw = @ \/ ~ok]
    /\ UNCHANGED <<negotiations, messages, userSockets, negotiationRooms, tasks,
                   events>>

\* a frame arrives while the handshake is at `await
\* storage.updateUserOnlineStatus(userId, true)`: the transport is open (the
\* client has had its open event) and ws.on('message') has not been called
\* yet, so the 'message' event is emitted to no listener; unheard counts
\* these frames
MessageBeforeListener(c, f) ==
    /\ conn[c].pc = "hs_online"
    /\ conn[c].readyState = "OPEN"
    /\ Event
    /\ conn' = [conn EXCEPT ![c].unheard = @ + 1]
    /\ UNCHANGED <<negotiations, messages, isOnline, userSockets,
                   negotiationRooms, tasks, sent>>

cleanupUserSocketsKeepsEmptySet(c) ==
    LET u == conn[c].userId IN
    IF u \in DOMAIN userSockets
    THEN IF userSockets[u] \ {c} = {}
         THEN [map |-> [userSockets EXCEPT ![u] = {}], cl |-> "cl_status"]
         ELSE [map |-> [userSockets EXCEPT ![u] = @ \ {c}], cl |-> "done"]
    ELSE [map |-> userSockets, cl |-> "done"]

\* ---------------------------------------------------------------- cleanup
\* cleanupWebSocket up to its first await.  The result is the pair of the
\* user map and the cleanup position: when the user's last socket goes, the
\* rooms are only cleared after the two storage awaits.
cleanupUserSockets(c) ==
    LET u == conn[c].userId IN
    IF u \in DOMAIN userSockets
    THEN IF userSockets[u] \ {c} = {}
         THEN [map |-> MapDelete(userSockets, u), cl |-> "cl_status"]
         ELSE [map |-> [userSockets EXCEPT ![u] = @ \ {c}], cl |-> "done"]
    ELSE [map |-> userSockets, cl |-> "done"]

\* the transport closes.  With handlers attached the 'close' event runs
\* cleanupWebSocket; an abnormal end fires 'error' and then 'close', which
\* runs it twice (the second call finds no user entry and clears the rooms).
\* Before the handlers are attached nothing listens.
Close(c, abnormal) ==
    /\ conn[c].readyState = "OPEN"
    /\ Event
    /\ UNCHANGED <<negotiations, messages, isOnline, tasks, sent>>
    /\ IF conn[c].pc = "attached"
       THEN LET r == cleanupUserSockets(c)
                now == r.cl = "done" \/ abnormal
            IN /\ userSockets' = r.map
               /\ negotiationRooms' =
                     IF now THEN RemoveFromAllRooms(negotiationRooms, c)
                     ELSE negotiationRooms
               /\ conn' = [conn EXCEPT ![c].readyState = "CLOSED",
                                       ![c].cl = r.cl]
       ELSE /\ conn' = [conn EXCEPT ![c].readyState = "CLOSED"]
            /\ UNCHANGED <<userSockets, negotiationRooms>>

\* cleanupWebSocket after `await storage.updateUserOnlineStatus(userId, false)`
CleanupStatus(c, ok) ==
    /\ conn[c].cl = "cl_status"
    /\ UNCHANGED <<negotiations, messages, userSockets, tasks, sent, events>>
    /\ IF ok
       THEN /\ isOnline' = [isOnline EXCEPT ![conn[c].userId] = FALSE]
            /\ conn' = [conn EXCEPT ![c].cl = "cl_lastseen"]
            /\ UNCHANGED negotiationRooms
       ELSE /\ conn' = [conn EXCEPT ![c].cl = "done", ![c].threw = TRUE]
            /\ negotiationRooms' = RemoveFromAllRooms(negotiationRooms, c)
            /\ UNCHANGED isOnline

\* cleanupWebSocket after `await storage.setUserLastSeen(userId)`: the
\* offline presence broadcast, then the rooms
CleanupLastSeen(c, ok) ==
    /\ conn[c].cl = "cl_lastseen"
    /\ LET u == conn[c].userId
           presence == Frame("presence_update", broadcastPresenceUpdate(u),
                             0, "", "offline", 0, 0, u)
       IN sent' = IF ok THEN SendTo(presence.to, presence) ELSE sent
    /\ conn' = [conn EXCEPT ![c].cl = "done", ![c].threw = @ \/ ~ok]
    /\ negotiationRooms' = RemoveFromAllRooms(negotiationRooms, c)
    /\ UNCHANGED <<negotiations, messages, isOnline, userSockets, tasks, events>>

\* ------------------------------------------------------- inbound frames
\* An inbound frame is the text of one WebSocket message.  json: JSON.parse
\* succeeds on it; content: the length of the chat content; a field the
\* frame does not have is Absent (0 for the two numbers); userIds is the
\* optional array, << >> when it is left out.
Absent == "absent"

NegotiationTypes == {"join_negotiation", "leave_negotiation",
                     "negotiation_message", "negotiation_offer",
                     "negotiation_counter", "negotiation_accept",
                     "negotiation_reject", "negotiation_status"}
KnownTypes == NegotiationTypes \cup {"presence_update", "request_presence"}

\* JSON.parse(data.toString()) does not throw
JSONparse(f) == f.json

wsMessageSchemaAnyAmount(f) ==
    /\ f.type \in KnownTypes
    /\ f.type \in NegotiationTypes => f.negotiationId # Absent
    /\ f.type = "negotiation_message" => f.content >= 1 /\ f.content <= 1000
    /\ f.type = "negotiation_status" => f.status \in StatusEnum
    /\ f.type = "presence_update" => f.userId # Absent

\* wsMessageSchema.parse(message) does not throw
wsMessageSchema(f) ==
    /\ f.type \in KnownTypes
    /\ f.type \in NegotiationTypes => f.negotiationId # Absent
    /\ f.type = "negotiation_message" => f.content >= 1 /\ f.content <= 1000
    /\ f.type \in {"negotiation_offer", "negotiation_counter"} => f.amount > 0
    /\ f.type = "negotiation_status" => f.status \in StatusEnum
    /\ f.type = "presence_update" => f.userId # Absent

\* the frames that pass wsMessageSchema
Frames ==
    [json : {TRUE},
     type : {"join_negotiation", "leave_negotiation", "negotiation_accept",
             "negotiation_reject"},
     negotiationId : NegIds, amount : {0}, status : {Absent}, content : {0},
     userId : {Absent}, isOnline : {FALSE}, userIds : {<< >>}]
    \cup [json : {TRUE}, type : {"negotiation_message"},
          negotiationId : NegIds, amount : {0}, status : {Absent},
          content : {1}, userId : {Absent}, isOnline : {FALSE},
          userIds : {<< >>}]
    \cup [json : {TRUE}, type : {"negotiation_offer", "negotiation_counter"},
          negotiationId : NegIds, amount : Amounts, status : {Absent},
          content : {0}, userId : {Absent}, isOnline : {FALSE},
          userIds : {<< >>}]
    \cup [json : {TRUE}, type : {"negotiation_status"},
          negotiationId : NegIds, amount : {0}, status : StatusEnum,
          content : {0}, userId : {Absent}, isOnline : {FALSE},
          userIds : {<< >>}]
    \cup [json : {TRUE}, type : {"presence_update"},
          negotiationId : {Absent}, amount : {0}, status : {Absent},
          content : {0}, userId : {"U1", "U2"}, isOnline : BOOLEAN,
          userIds : {<< >>}]
    \cup [json : {TRUE}, type : {"request_presence"},
          negotiationId : {Absent}, amount : {0}, status : {Absent},
          content : {0}, userId : {Absent}, isOnline : {FALSE},
          userIds : {<< >>, << {"U2"} >>}]

\* frames that JSON.parse or wsMessageSchema refuses: text that is no JSON,
\* a type outside the union, a join without negotiationId, an offer with a
\* zero or negative amount, a chat with empty or over-long content
BadFrames ==
    [json : {FALSE}, type : {Absent}, negotiationId : {Absent}, amount : {0},
     status : {Absent}, content : {0}, userId : {Absent}, isOnline : {FALSE},
     userIds : {<< >>}]
    \cup [json : {TRUE}, type : {"ping", "join_negotiation"},
          negotiationId : {Absent}, amount : {0}, status : {Absent},
          content : {0}, userId : {Absent}, isOnline : {FALSE},
          userIds : {<< >>}]
    \cup [json : {TRUE}, type : {"negotiation_offer"}, negotiationId : NegIds,
          amount : {0, -1000}, status : {Absent}, content : {0},
          userId : {Absent}, isOnline : {FALSE}, userIds : {<< >>}]
    \cup [json : {TRUE}, type : {"negotiation_message"},
          negotiationId : NegIds, amount : {0}, status : {Absent},
          content : {0, 1001}, userId : {Absent}, isOnline : {FALSE},
          userIds : {<< >>}]

Inbound == Frames \cup BadFrames

\* the handler of an inbound frame: the frame, the connection it came in
\* on, the await the handler stands at (pc), the id of the row it created,
\* whether one of its storage calls threw, and handlePresenceRequest's
\* local targetUserIds
Task(c, f, pc) ==
    [conn |-> c, json |-> f.json, type |-> f.type,
     negotiationId |-> f.negotiationId, amount |-> f.amount,
     status |-> f.status, content |-> f.content, userId |-> f.userId,
     isOnline |-> f.isOnline, userIds |-> f.userIds, targetUserIds |-> {},
     pc |-> pc, msgId |-> 0, threw |-> FALSE]

TaskIds == 1..Len(tasks)
UserOf(t) == conn[tasks[t].conn].userId

SetPc(t, pc) == [tasks EXCEPT ![t].pc = pc]

\* ws.send(error) to the sender, and the handler returns
ReplyError(t, msg) ==
    /\ sent' = Append(sent, ErrorFrame(tasks[t].conn, t, msg))
    /\ tasks' = SetPc(t, "done")

CatchWithoutReply(t, msg) ==
    /\ sent' = sent
    /\ tasks' = [tasks EXCEPT ![t].pc = "done", ![t].threw = TRUE]

\* a storage call threw: the handler's catch block answers the sender
Catch(t, msg) ==
    /\ sent' = Append(sent, ErrorFrame(tasks[t].conn, t, msg))
    /\ tasks' = [tasks EXCEPT ![t].pc = "done", ![t].threw = TRUE]

validateNegotiationAccessNoParticipantCheck(userId, negotiationId) ==
    LET negotiation == getNegotiation(negotiationId) IN
    IF ~negotiation.found
    THEN [success |-> FALSE, error |-> "Negotiation not found"]
    ELSE IF negotiation.status \in Terminal
    THEN [success |-> FALSE,
          error |-> "Cannot modify completed or cancelled negotiation"]
    ELSE [success |-> TRUE, error |-> ""]

validateNegotiationAccess(userId, negotiationId) ==
    LET negotiation == getNegotiation(negotiationId) IN
    IF ~negotiation.found
    THEN [success |-> FALSE, error |-> "Negotiation not found"]
    ELSE IF negotiation.status \in Terminal
    THEN [success |-> FALSE,
          error |-> "Cannot modify completed or cancelled negotiation"]
    ELSE IF negotiation.buyerId # userId /\ negotiation.sellerId # userId
    THEN [success |-> FALSE, error |-> "Access denied to this negotiation"]
    ELSE [success |-> TRUE, error |-> ""]

\* ws.on('message') -> handleWebSocketMessage: the text is parsed, checked
\* against the schema and dispatched.  A frame that is refused is answered
\* at once; leave_negotiation is handled synchronously; every other handler
\* runs to its first storage await.  The switch's default branch is behind
\* wsMessageSchema.parse, which throws for every type outside the union.
Receive(c, f) ==
    /\ conn[c].pc = "attached"
    /\ conn[c].readyState = "OPEN"
    /\ Event
    /\ LET t == Len(tasks) + 1
           Reply(msg) ==
               /\ tasks' = Append(tasks, Task(c, f, "done"))
               /\ sent' = Append(sent, ErrorFrame(c, t, msg))
               /\ UNCHANGED negotiationRooms
           Await(pc) ==
               /\ tasks' = Append(tasks, Task(c, f, pc))
               /\ UNCHANGED <<negotiationRooms, sent>>
       IN IF ~JSONparse(f) THEN Reply("Invalid message format")
          ELSE IF ~conn[c].isAuthenticated \/ conn[c].userId = ""
          THEN Reply("Not authenticated")
          ELSE IF ~wsMessageSchema(f) THEN Reply("Invalid message format")
          ELSE IF f.type \notin KnownTypes
          THEN Reply("Unknown message type: " \o f.type)
          ELSE IF f.type = "leave_negotiation"
          THEN /\ tasks' = Append(tasks, Task(c, f, "done"))
               /\ negotiationRooms' =
                     RoomRemove(negotiationRooms, f.negotiationId, c)
               /\ sent' = Append(sent, Frame("negotiation_left", {c}, t,
                                             f.negotiationId, "", 0, 0, ""))
          ELSE IF f.type = "join_negotiation"
          THEN IF f.negotiationId = "" THEN Reply("Invalid negotiation ID")
               ELSE Await("getNegotiation")
          ELSE IF f.type = "presence_update"
          THEN IF conn[c].userId # f.userId
               THEN Reply("Cannot update presence for other users")
               ELSE Await("updateUserOnlineStatus")
          ELSE IF f.type = "request_presence"
          THEN /\ tasks' = Append(tasks,
                     [Task(c, f, "getUsersOnlineStatus")
                      EXCEPT !.targetUserIds =
                                 IF f.userIds = << >> THEN getConnectedUsers
                                 ELSE f.userIds[1]])
               /\ UNCHANGED <<negotiationRooms, sent>>
          ELSE Await("validate")
    /\ UNCHANGED <<negotiations, messages, isOnline, userSockets, conn>>

\* handleJoinNegotiation's participant check
joinDeniedUnchecked(negotiation, userId) == FALSE

joinDenied(negotiation, userId) ==
    negotiation.buyerId # userId /\ negotiation.sellerId # userId

\* handleJoinNegotiation after `await storage.getNegotiation(negotiationId)`
handleJoinNegotiation(t, ok) ==
    /\ tasks[t].type = "join_negotiation"
    /\ tasks[t].pc = "getNegotiation"
    /\ UNCHANGED <<negotiations, messages, isOnline, userSockets, conn, events>>
    /\ LET negotiation == getNegotiation(tasks[t].negotiationId)
           c == tasks[t].conn
       IN IF ~ok
          THEN Catch(t, "Failed to join negotiation")
               /\ UNCHANGED negotiationRooms
          ELSE IF ~negotiation.found
          THEN ReplyError(t, "Negotiation not found")
               /\ UNCHANGED negotiationRooms
          ELSE IF joinDenied(negotiation, UserOf(t))
          THEN ReplyError(t, "Access denied to this negotiation")
               /\ UNCHANGED negotiationRooms
          ELSE /\ negotiationRooms' =
                     MapAdd(negotiationRooms, tasks[t].negotiationId, c)
               /\ sent' = Append(sent, Frame("negotiation_joined", {c}, t,
                                   tasks[t].negotiationId, "", 0, 0, ""))
               /\ tasks' = SetPc(t, "done")

\* --------------------------------------------- steps shared by the handlers
\* after `await validateNegotiationAccess(...)`, with the handler's own
\* role check; roleError = "" when the handler has none or it passes
AccessStep(t, ok, roleError, failMsg, next) ==
    /\ tasks[t].pc = "validate"
    /\ UNCHANGED <<negotiations, messages, isOnline, userSockets,
                   negotiationRooms, conn, events>>
    /\ LET accessCheck ==
               validateNegotiationAccess(UserOf(t), tasks[t].negotiationId)
       IN IF ~ok THEN Catch(t, failMsg)
          ELSE IF ~accessCheck.success THEN ReplyError(t, accessCheck.error)
          ELSE IF roleError # "" THEN ReplyError(t, roleError)
          ELSE tasks' = SetPc(t, next) /\ UNCHANGED sent

\* after `await storage.updateNegotiation(id, {currentOffer})` or
\* `await storage.updateNegotiationStatus(id, status)`
UpdateStep(t, ok, newNegotiations, failMsg) ==
    /\ tasks[t].pc = "update"
    /\ UNCHANGED <<messages, isOnline, userSockets, negotiationRooms, conn,
                   events>>
    /\ IF ok
       THEN /\ negotiations' = newNegotiations
            /\ tasks' = SetPc(t, "createMessage")
            /\ UNCHANGED sent
       ELSE Catch(t, failMsg) /\ UNCHANGED negotiations

\* after `await storage.createMessage(...)`
PersistStep(t, ok, messageType, failMsg) ==
    /\ tasks[t].pc = "createMessage"
    /\ UNCHANGED <<negotiations, isOnline, userSockets, negotiationRooms, conn,
                   events>>
    /\ IF ok
       THEN LET row == createMessage(tasks[t].negotiationId, UserOf(t),
                                     messageType, tasks[t].amount)
            IN /\ messages' = Append(messages, row)
               /\ tasks' = [tasks EXCEPT ![t].pc = "getUser",
                                         ![t].msgId = row.id]
               /\ UNCHANGED sent
       ELSE Catch(t, failMsg) /\ UNCHANGED messages

\* after `await storage.getUser(ws.userId)`: broadcastNegotiationUpdate
broadcastNegotiationUpdate(t, messageType) ==
    LET to == broadcastToNegotiation(tasks[t].negotiationId)
    IN SendTo(to, [Frame("negotiation_update", to, t, tasks[t].negotiationId,
                         messageType, tasks[t].msgId, tasks[t].amount, "")
                   EXCEPT !.senderId = UserOf(t)])

BroadcastStep(t, ok, messageType, failMsg, next) ==
    /\ tasks[t].pc = "getUser"
    /\ UNCHANGED <<negotiations, messages, isOnline, userSockets,
                   negotiationRooms, conn, events>>
    /\ IF ok
       THEN /\ sent' = broadcastNegotiationUpdate(t, messageType)
            /\ tasks' = SetPc(t, next)
       ELSE Catch(t, failMsg)

\* ------------------------------------------------------------ the handlers
handleNegotiationMessage(t, ok) ==
    /\ tasks[t].type = "negotiation_message"
    /\ LET fail == "Failed to send message" IN
       \/ AccessStep(t, ok, "", fail, "createMessage")
       \/ PersistStep(t, ok, "chat", fail)
       \/ BroadcastStep(t, ok, "chat", fail, "done")

handleNegotiationOffer(t, ok) ==
    /\ tasks[t].type = "negotiation_offer"
    /\ LET fail == "Failed to make offer"
           negotiation == getNegotiation(tasks[t].negotiationId)
           roleError == IF negotiation.buyerId # UserOf(t)
                        THEN "Only buyers can make offers" ELSE ""
       IN \/ AccessStep(t, ok, roleError, fail, "update")
          \/ UpdateStep(t, ok, updateNegotiation(tasks[t].negotiationId,
                                                 tasks[t].amount), fail)
          \/ PersistStep(t, ok, "offer", fail)
          \/ BroadcastStep(t, ok, "offer", fail, "done")

handleNegotiationCounter(t, ok) ==
    /\ tasks[t].type = "negotiation_counter"
    /\ LET fail == "Failed to make counter offer"
           negotiation == getNegotiation(tasks[t].negotiationId)
           roleError == IF negotiation.sellerId # UserOf(t)
                        THEN "Only sellers can make counter offers" ELSE ""
       IN \/ AccessStep(t, ok, roleError, fail, "update")
          \/ UpdateStep(t, ok, updateNegotiation(tasks[t].negotiationId,
                                                 tasks[t].amount), fail)
          \/ PersistStep(t, ok, "counter", fail)
          \/ BroadcastStep(t, ok, "counter", fail, "done")

handleNegotiationAccept(t, ok) ==
    /\ tasks[t].type = "negotiation_accept"
    /\ LET fail == "Failed to accept offer" IN
       \/ AccessStep(t, ok, "", fail, "update")
       \/ UpdateStep(t, ok, updateNegotiationStatus(tasks[t].negotiationId,
                                                    "completed"), fail)
       \/ PersistStep(t, ok, "accept", fail)
       \/ BroadcastStep(t, ok, "accept", fail, "done")

handleNegotiationRejectSetsStatus(t, ok) ==
    /\ tasks[t].type = "negotiation_reject"
    /\ LET fail == "Failed to reject offer" IN
       \/ AccessStep(t, ok, "", fail, "update")
       \/ UpdateStep(t, ok, updateNegotiationStatus(tasks[t].negotiationId,
                                                    "rejected"), fail)
       \/ PersistStep(t, ok, "reject", fail)
       \/ BroadcastStep(t, ok, "reject", fail, "done")

handleNegotiationReject(t, ok) ==
    /\ tasks[t].type = "negotiation_reject"
    /\ LET fail == "Failed to reject offer" IN
       \/ AccessStep(t, ok, "", fail, "createMessage")
       \/ PersistStep(t, ok, "reject", fail)
       \/ BroadcastStep(t, ok, "reject", fail, "done")

\* broadcastNegotiationStatusUpdate: getNegotiation and getUser, then the
\* frame goes to every OPEN socket of the buyer and of the seller; a throw
\* is caught inside, logged, and answered with nothing
broadcastNegotiationStatusUpdate(t, ok) ==
    /\ tasks[t].pc = "statusUpdate"
    /\ UNCHANGED <<negotiations, messages, isOnline, userSockets,
                   negotiationRooms, conn, events>>
    /\ tasks' = [tasks EXCEPT ![t].pc = "done", ![t].threw = ~ok]
    /\ LET negotiation == getNegotiation(tasks[t].negotiationId)
           to == OpenIn(UNION {userSockets[u] :
                     u \in {negotiation.buyerId, negotiation.sellerId}
                           \cap DOMAIN userSockets})
       IN sent' = IF ok /\ negotiation.found
                  THEN SendTo(to, Frame("negotiation_status_update", to, t,
                              tasks[t].negotiationId, tasks[t].status, 0, 0, ""))
                  ELSE sent

handleNegotiationStatus(t, ok) ==
    /\ tasks[t].type = "negotiation_status"
    /\ LET fail == "Failed to update status" IN
       \/ AccessStep(t, ok, "", fail, "update")
       \/ UpdateStep(t, ok, updateNegotiationStatus(tasks[t].negotiationId,
                                                    tasks[t].status), fail)
       \/ PersistStep(t, ok, "status", fail)
       \/ BroadcastStep(t, ok, "status", fail, "statusUpdate")
       \/ broadcastNegotiationStatusUpdate(t, ok)

\* ------------------------------------------------------ presence handlers
\* handlePresenceUpdate after `await storage.updateUserOnlineStatus(userId,
\* isOnline)`: the broadcast to the other users, then presence_updated
handlePresenceUpdate(t, ok) ==
    /\ tasks[t].type = "presence_update"
    /\ tasks[t].pc = "updateUserOnlineStatus"
    /\ UNCHANGED <<negotiations, messages, userSockets, negotiationRooms, conn,
                   events>>
    /\ IF ok
       THEN LET u == tasks[t].userId
                status == IF tasks[t].isOnline THEN "online" ELSE "offline"
                presence == Frame("presence_update", broadcastPresenceUpdate(u),
                                  t, "", status, 0, 0, u)
            IN /\ isOnline' = [isOnline EXCEPT ![u] = tasks[t].isOnline]
               /\ sent' = Append(SendTo(presence.to, presence),
                                 Frame("presence_updated", {tasks[t].conn}, t,
                                       "", status, 0, 0, u))
               /\ tasks' = SetPc(t, "done")
       ELSE Catch(t, "Failed to update presence") /\ UNCHANGED isOnline

getUsersOnlineStatusOfEveryUser(userIds) ==
    {[userId |-> u, isOnline |-> isOnline[u]] : u \in Users}

\* storage.getUsersOnlineStatus: the presence rows of the users asked for
getUsersOnlineStatus(userIds) ==
    {[userId |-> u, isOnline |-> isOnline[u]] : u \in userIds \cap Users}

\* handlePresenceRequest after `await storage.getUsersOnlineStatus(...)`
handlePresenceRequest(t, ok) ==
    /\ tasks[t].type = "request_presence"
    /\ tasks[t].pc = "getUsersOnlineStatus"
    /\ UNCHANGED <<negotiations, messages, isOnline, userSockets,
                   negotiationRooms, conn, events>>
    /\ IF ok
       THEN /\ sent' = Append(sent,
                  [Frame("presence_data", {tasks[t].conn}, t, "", "", 0, 0, "")
                   EXCEPT !.users =
                              getUsersOnlineStatus(tasks[t].targetUserIds)])
            /\ tasks' = SetPc(t, "done")
       ELSE Catch(t, "Failed to get presence data")

\* ------------------------------------------------- the client manager
\* NegotiationWebSocket of design_guidelines.md.  `client` holds the fields
\* of the one manager instance together with what it acts on: the browser
\* sockets it has created (sockets, this.ws is an index into it or Null),
\* the calls of POST /api/ws-token that have not returned yet (requests),
\* the number of tokens issued (a token is named by its serial number) and
\* the frames handed to a socket by the latest step (transmitted).
\* A step is one run of the event loop: a call of the public API, a timer
\* callback, a socket event or the return of a token request, each run up
\* to its next pending await.  An await on an already settled promise
\* resumes in the same run.  clock counts minutes.
Null == 0
NoTimeout == [set |-> FALSE, pending |-> FALSE, at |-> 0]
Timeout(at) == [set |-> TRUE, pending |-> TRUE, at |-> at]
ClientNegIds == {"N1", "N2"}

\* /api/ws-token answers expiresIn: 15 * 60 * 1000 ms, in minutes
expiresIn == 15
\* the 2 * 60 * 1000 ms buffer of ensureValidToken, in minutes
TokenBuffer == 2

\* the instance after its constructor
NewNegotiationWebSocket ==
    [ws |-> Null, token |-> Null, tokenExpiresAt |-> 0,
     reconnectTimeout |-> NoTimeout, tokenRefreshTimeout |-> NoTimeout,
     connectionState |-> [status |-> "disconnected", retryCount |-> 0],
     currentNegotiationRooms |-> << >>, isUserDisconnected |-> FALSE,
     sockets |-> << >>, requests |-> << >>, issued |-> 0,
     transmitted |-> << >>]

\* useNegotiationSocket before it is mounted: the negotiationId option, the
\* connectionState.status the room effect last ran with, the ref
\* currentNegotiationRef, and whether the room effect's last run returned
\* its cleanup function
NewHook ==
    [mounted |-> FALSE, negotiationId |-> Absent, status |-> "disconnected",
     currentNegotiationRef |-> Absent, cleanup |-> FALSE]

\* the frame a client method builds: the fields of wsMessageSchema
ClientFrame(type, negotiationId) ==
    [json |-> TRUE, type |-> type, negotiationId |-> negotiationId,
     amount |-> 0, status |-> Absent, content |-> 0, userId |-> Absent,
     isOnline |-> FALSE, userIds |-> << >>]

updateConnectionState(k, status, retryCount) ==
    [k EXCEPT !.connectionState = [status |-> status, retryCount |-> retryCount]]

isConnected(k) == k.connectionState.status = "connected"
isConnecting(k) == k.connectionState.status = "connecting"

clearReconnectTimeout(k) == [k EXCEPT !.reconnectTimeout = NoTimeout]
clearTokenRefreshTimeout(k) == [k EXCEPT !.tokenRefreshTimeout = NoTimeout]

\* WebSocket.close(): a socket that is connecting or open starts closing
WebSocketClose(k, s) ==
    IF k.sockets[s].readyState \in {"CONNECTING", "OPEN"}
    THEN [k EXCEPT !.sockets[s].readyState = "CLOSING"]
    ELSE k

\* WebSocket.send(): throws on a connecting socket (send() catches it),
\* discards the data on a closing or closed one
WebSocketSend(k, s, message) ==
    IF k.sockets[s].readyState = "OPEN"
    THEN [k EXCEPT !.transmitted = Append(@, [socket |-> s, frame |-> message])]
    ELSE k

disconnect(k) ==
    LET a == clearTokenRefreshTimeout(clearReconnectTimeout(
                 [k EXCEPT !.isUserDisconnected = TRUE]))
        b == IF a.ws # Null
             THEN [WebSocketClose(a, a.ws) EXCEPT !.ws = Null]
             ELSE a
    IN updateConnectionState(b, "disconnected", 0)

sendReportsErrorWhenOffline(k, message) ==
    IF ~isConnected(k) \/ k.ws = Null
    THEN updateConnectionState(k, "error", k.connectionState.retryCount)
    ELSE IF ~wsMessageSchema(message) THEN k
    ELSE WebSocketSend(k, k.ws, message)

send(k, message) ==
    IF ~isConnected(k) \/ k.ws = Null THEN k
    ELSE IF ~wsMessageSchema(message) THEN k
    ELSE WebSocketSend(k, k.ws, message)

Min(a, b) == IF a < b THEN a ELSE b

ReconnectDelay(retryCount) == Min((2 ^ retryCount) * 1000, 30000)

scheduleReconnectEveryRetry2000(k) ==
    IF k.isUserDisconnected THEN k
    ELSE LET retryCount == k.connectionState.retryCount + 1
         IN [updateConnectionState(clearReconnectTimeout(k), "reconnecting",
                                   retryCount)
             EXCEPT !.reconnectTimeout = Timeout(2000)]

\* reconnectTimeout.at is the delay of the timer in ms
scheduleReconnect(k) ==
    IF k.isUserDisconnected THEN k
    ELSE LET retryCount == k.connectionState.retryCount + 1
             delay == ReconnectDelay(retryCount)
         IN [updateConnectionState(clearReconnectTimeout(k), "reconnecting",
                                   retryCount)
             EXCEPT !.reconnectTimeout = Timeout(delay)]

TokenStillValidUntilExpiry(k, now) ==
    k.token # Null /\ k.tokenExpiresAt > now

\* the check of ensureValidToken at time now
TokenStillValid(k, now) ==
    k.token # Null /\ k.tokenExpiresAt > now + TokenBuffer

\* ensureValidToken after a successful answer to the request it issued at
\* time now; tokenRefreshTimeout.at is the minute at which the timer is due
TokenAcquired(k, now) ==
    LET a == clearTokenRefreshTimeout(
                 [k EXCEPT !.token = k.issued + 1, !.issued = k.issued + 1,
                           !.tokenExpiresAt = now + expiresIn])
        refreshIn == expiresIn - TokenBuffer
    IN IF refreshIn > 0
       THEN [a EXCEPT !.tokenRefreshTimeout = Timeout(clock + refreshIn)]
       ELSE a

\* ensureValidToken after a failed request
TokenFailed(k) == [k EXCEPT !.token = Null, !.tokenExpiresAt = 0]

\* the catch block of establishConnection
establishConnectionCatch(k) ==
    LET a == updateConnectionState(k, "error", k.connectionState.retryCount)
    IN IF ~a.isUserDisconnected THEN scheduleReconnect(a) ELSE a

\* establishConnection after `await this.ensureValidToken()` has returned
NewWebSocket(k) ==
    IF k.token = Null THEN establishConnectionCatch(k)
    ELSE [k EXCEPT !.sockets = Append(@, [readyState |-> "CONNECTING",
                                          token |-> k.token]),
                   !.ws = Len(k.sockets) + 1]

\* a method that awaits ensureValidToken: with a token that is still valid
\* it runs on (after), otherwise the request is issued and the method waits
AwaitEnsureValidToken(k, by, after) ==
    IF TokenStillValid(k, clock) THEN after
    ELSE [k EXCEPT !.requests = Append(@, [by |-> by, now |-> clock])]

establishConnection(k) ==
    LET a == updateConnectionState(k, "connecting",
                                   k.connectionState.retryCount)
    IN AwaitEnsureValidToken(a, "establishConnection", NewWebSocket(a))

connect(k) ==
    IF isConnecting(k) \/ isConnected(k) THEN k
    ELSE establishConnection([k EXCEPT !.isUserDisconnected = FALSE])

refreshTokenReturnedDisconnectOnly(k) ==
    IF isConnected(k) THEN disconnect(k) ELSE k

\* refreshToken after ensureValidToken has returned, and its catch block
refreshTokenReturned(k) ==
    IF isConnected(k) THEN connect(disconnect(k)) ELSE k

refreshTokenCatch(k) ==
    IF isConnected(k) THEN scheduleReconnect(disconnect(k)) ELSE k

refreshToken(k) ==
    AwaitEnsureValidToken(k, "refreshToken", refreshTokenReturned(k))

RECURSIVE Rejoin(_, _)
Rejoin(k, rooms) ==
    IF rooms = << >> THEN k
    ELSE Rejoin(send(k, ClientFrame("join_negotiation", Head(rooms))),
                Tail(rooms))

onopen(k) ==
    LET a == updateConnectionState(k, "connected", 0)
    IN Rejoin(a, a.currentNegotiationRooms)

onclose(k) ==
    LET a == [k EXCEPT !.ws = Null]
    IN IF ~a.isUserDisconnected THEN scheduleReconnect(a)
       ELSE updateConnectionState(a, "disconnected", 0)

onerror(k) == updateConnectionState(k, "error", k.connectionState.retryCount)

\* Set.add and Set.delete, the set kept in insertion order
SetAdd(seq, x) ==
    IF \E i \in DOMAIN seq : seq[i] = x THEN seq ELSE Append(seq, x)
SetDelete(seq, x) == SelectSeq(seq, LAMBDA y : y # x)

joinNegotiation(k, negotiationId) ==
    send([k EXCEPT !.currentNegotiationRooms = SetAdd(@, negotiationId)],
         ClientFrame("join_negotiation", negotiationId))

leaveNegotiation(k, negotiationId) ==
    send([k EXCEPT !.currentNegotiationRooms = SetDelete(@, negotiationId)],
         ClientFrame("leave_negotiation", negotiationId))

handleVisibilityChangeIgnoresFlag(k) ==
    IF ~isConnected(k) /\ ~isConnecting(k) THEN connect(k) ELSE k

handleVisibilityChange(k) ==
    IF ~k.isUserDisconnected /\ ~isConnected(k) /\ ~isConnecting(k)
    THEN connect(k)
    ELSE k

\* the model follows the manager while it stays within the bounds
WithinBounds(k) ==
    /\ Len(k.sockets) <= MaxSockets
    /\ Len(k.requests) <= MaxRequests
    /\ k.connectionState.retryCount <= MaxRetry

\* one step of the manager: the frames of the step before are on the wire
RunHook(k, h) ==
    /\ WithinBounds(k)
    /\ client' = k
    /\ hook' = h
    /\ UNCHANGED svars

Run(k) == RunHook(k, hook)

Manager == [client EXCEPT !.transmitted = << >>]

\* one more call or event from outside the manager
ClientEvent == events < MaxClientEvents /\ events' = events + 1

\* ---- calls of the application
CallConnect == ClientEvent /\ Run(connect(Manager)) /\ UNCHANGED clock
CallDisconnect == ClientEvent /\ Run(disconnect(Manager)) /\ UNCHANGED clock
CallJoinNegotiation(n) ==
    ClientEvent /\ Run(joinNegotiation(Manager, n)) /\ UNCHANGED clock
CallLeaveNegotiation(n) ==
    ClientEvent /\ Run(leaveNegotiation(Manager, n)) /\ UNCHANGED clock

\* the page becomes visible
VisibilityChange ==
    ClientEvent /\ Run(handleVisibilityChange(Manager)) /\ UNCHANGED clock

\* ---- timers
ReconnectTimeoutFires ==
    /\ client.reconnectTimeout.pending
    /\ LET a == [Manager EXCEPT !.reconnectTimeout.pending = FALSE]
       IN Run(IF ~a.isUserDisconnected THEN establishConnection(a) ELSE a)
    /\ UNCHANGED <<clock, events>>

TokenRefreshTimeoutFires ==
    /\ client.tokenRefreshTimeout.pending
    /\ clock >= client.tokenRefreshTimeout.at
    /\ LET a == [Manager EXCEPT !.tokenRefreshTimeout.pending = FALSE]
       IN Run(IF isConnected(a) THEN refreshToken(a) ELSE a)
    /\ UNCHANGED <<clock, events>>

\* ---- POST /api/ws-token returns to the method that awaits it
RemoveAt(seq, i) == SubSeq(seq, 1, i - 1) \o SubSeq(seq, i + 1, Len(seq))

TokenResponse(i, ok) ==
    /\ i \in DOMAIN client.requests
    /\ LET r == client.requests[i]
           a == [Manager EXCEPT !.requests = RemoveAt(@, i)]
       IN Run(IF r.by = "establishConnection"
              THEN IF ok THEN NewWebSocket(TokenAcquired(a, r.now))
                   ELSE establishConnectionCatch(TokenFailed(a))
              ELSE IF ok THEN refreshTokenReturned(TokenAcquired(a, r.now))
                   ELSE refreshTokenCatch(TokenFailed(a)))
    /\ UNCHANGED <<clock, events>>

\* ---- socket events.  The handlers are closures over the manager, not
\* over the socket: they act on the manager whichever socket fires them.
SocketOpens(s) ==
    /\ s \in DOMAIN client.sockets
    /\ client.sockets[s].readyState = "CONNECTING"
    /\ Run(onopen([Manager EXCEPT !.sockets[s].readyState = "OPEN"]))
    /\ UNCHANGED <<clock, events>>

\* the connection ends: when it failed, 'error' is fired before 'close'
SocketCloses(s, failed) ==
    /\ s \in DOMAIN client.sockets
    /\ client.sockets[s].readyState # "CLOSED"
    /\ LET a == [Manager EXCEPT !.sockets[s].readyState = "CLOSED"]
       IN Run(onclose(IF failed THEN onerror(a) ELSE a))
    /\ UNCHANGED <<clock, events>>

\* ---- time passes
Tick(d) ==
    /\ ClientEvent
    /\ clock' = clock + d
    /\ client' = Manager
    /\ UNCHANGED <<svars, hook>>

TickSteps == {1, 13}

NextClient ==
    \/ CallConnect
    \/ CallDisconnect
    \/ \E n \in ClientNegIds : CallJoinNegotiation(n)
    \/ \E n \in ClientNegIds : CallLeaveNegotiation(n)
    \/ VisibilityChange
    \/ ReconnectTimeoutFires
    \/ TokenRefreshTimeoutFires
    \/ \E i \in 1..MaxRequests, ok \in BOOLEAN : TokenResponse(i, ok)
    \/ \E s \in 1..MaxSockets : SocketOpens(s)
    \/ \E s \in 1..MaxSockets, failed \in BOOLEAN : SocketCloses(s, failed)
    \/ \E d \in TickSteps : Tick(d)

\* ------------------------------------------- the hook useNegotiationSocket
\* sendMessage, sendOffer, sendCounter, acceptOffer, rejectOffer and
\* updateNegotiationStatus build the frame of their type and pass it to send
Outbound == {f \in Inbound : f.json /\ f.type \in MutatingTypes}

CallSend(f) == ClientEvent /\ Run(send(Manager, f)) /\ UNCHANGED clock

\* JSON.stringify(message): the text of the message, a string; it has none
\* of the properties of the object it was made from
JSONstringify(message) ==
    [json |-> TRUE, type |-> Absent, negotiationId |-> Absent, amount |-> 0,
     status |-> Absent, content |-> 0, userId |-> Absent, isOnline |-> FALSE,
     userIds |-> << >>, text |-> message]

\* the user of useAuth()
CurrentUser == "U1"

\* the room management effect: the cleanup its last run returned, then
\* its body
useEffectRoom(k, h) ==
    LET ref == h.currentNegotiationRef
        a == IF h.cleanup /\ ref # Absent THEN leaveNegotiation(k, ref) ELSE k
        rendered == [h EXCEPT !.status = k.connectionState.status,
                              !.cleanup = FALSE]
    IN IF h.negotiationId = Absent \/ ~isConnected(a)
       THEN [k |-> a, h |-> rendered]
       ELSE LET b == IF ref # Absent /\ ref # h.negotiationId
                     THEN leaveNegotiation(a, ref) ELSE a
                c == IF h.negotiationId # ref
                     THEN joinNegotiation(b, h.negotiationId) ELSE b
            IN [k |-> c,
                h |-> [rendered EXCEPT !.currentNegotiationRef = h.negotiationId,
                                       !.cleanup = TRUE]]

\* the component mounts with autoConnect, authenticated: the room effect,
\* which still has the initial connectionState, then the auto-connect effect
HookMount(n) ==
    /\ ~hook.mounted
    /\ ClientEvent
    /\ LET r == useEffectRoom(Manager, [hook EXCEPT !.mounted = TRUE,
                                                    !.negotiationId = n])
           k == IF ~isConnected(r.k) THEN connect(r.k) ELSE r.k
       IN RunHook(k, [r.h EXCEPT !.status = "disconnected"])
    /\ UNCHANGED clock

\* the manager's status differs from the one of the last render: React
\* renders and runs the room effect again
RoomEffect ==
    /\ hook.mounted
    /\ hook.status # client.connectionState.status
    /\ LET r == useEffectRoom(Manager, hook) IN RunHook(r.k, r.h)
    /\ UNCHANGED <<clock, events>>

\* the hook's sendMessage .. updateStatus
HookSend(f) ==
    /\ hook.mounted
    /\ f.negotiationId = hook.negotiationId
    /\ CallSend(f)

requestPresence(k, userIds) ==
    send(k, JSONstringify([ClientFrame("request_presence", Absent)
                              EXCEPT !.userIds = userIds]))

updatePresence(k, online) ==
    send(k, JSONstringify([ClientFrame("presence_update", Absent)
                              EXCEPT !.userId = CurrentUser,
                                     !.isOnline = online]))

HookRequestPresence(userIds) ==
    /\ hook.mounted
    /\ ClientEvent
    /\ Run(requestPresence(Manager, userIds))
    /\ UNCHANGED clock

HookUpdatePresence(online) ==
    /\ hook.mounted
    /\ ClientEvent
    /\ Run(updatePresence(Manager, online))
    /\ UNCHANGED clock

NextHook ==
    \/ \E n \in ClientNegIds : HookMount(n)
    \/ RoomEffect
    \/ \E f \in Outbound : HookSend(f)
    \/ \E userIds \in {<< >>, << {"U2"} >>} : HookRequestPresence(userIds)
    \/ \E online \in BOOLEAN : HookUpdatePresence(online)
    \/ CallConnect
    \/ CallDisconnect
    \/ ReconnectTimeoutFires
    \/ TokenRefreshTimeoutFires
    \/ \E i \in 1..MaxRequests, ok \in BOOLEAN : TokenResponse(i, ok)
    \/ \E s \in 1..MaxSockets : SocketOpens(s)
    \/ \E s \in 1..MaxSockets, failed \in BOOLEAN : SocketCloses(s, failed)
    \/ \E d \in TickSteps : Tick(d)

\* ------------------------------------------------------- specifications
\* threw: a storage call of the connection's handshake or cleanup threw
NoConn == [readyState |-> "NONE", token |-> "", userId |-> "",
           isAuthenticated |-> FALSE, pc |-> "idle", cl |-> "none",
           closeReason |-> "", threw |-> FALSE, unheard |-> 0]
OpenConn(u) == [readyState |-> "OPEN", token |-> u, userId |-> u,
                isAuthenticated |-> TRUE, pc |-> "attached", cl |-> "none",
                closeReason |-> "", threw |-> FALSE, unheard |-> 0]
EmptyMap == [x \in {} |-> {}]
Negotiation(status) == [buyerId |-> "U1", sellerId |-> "U2",
                        status |-> status, currentOffer |-> 0]

\* the server after construction: one negotiation created over REST
Init ==
    /\ negotiations = [n \in {"N1"} |-> Negotiation("active")]
    /\ messages = << >>
    /\ isOnline = [u \in Users |-> FALSE]
    /\ userSockets = EmptyMap
    /\ negotiationRooms = EmptyMap
    /\ conn = [c \in Conns |-> NoConn]
    /\ tasks = << >>
    /\ sent = << >>
    /\ events = 0
    /\ client = NewNegotiationWebSocket
    /\ hook = NewHook
    /\ clock = 0

\* buyer U1 on c1 and seller U2 on c2 have joined the room of N1, the
\* outsider U3 is connected on c3
RoomOf(status) ==
    /\ negotiations = [n \in {"N1"} |-> Negotiation(status)]
    /\ messages = << >>
    /\ isOnline = [u \in Users |-> TRUE]
    /\ userSockets = [u \in Users |-> IF u = "U1" THEN {"c1"}
                                      ELSE IF u = "U2" THEN {"c2"} ELSE {"c3"}]
    /\ negotiationRooms = [n \in {"N1"} |-> {"c1", "c2"}]
    /\ conn = [c \in Conns |-> IF c = "c1" THEN OpenConn("U1")
                               ELSE IF c = "c2" THEN OpenConn("U2")
                               ELSE IF c = "c3" THEN OpenConn("U3")
                               ELSE NoConn]
    /\ tasks = << >>
    /\ sent = << >>
    /\ events = 0
    /\ client = NewNegotiationWebSocket
    /\ hook = NewHook
    /\ clock = 0

\* the room of an active negotiation
InitRoom == RoomOf("active")

\* the room of a negotiation whose stored status is any value of the
\* status column
InitStored == \E status \in StoredStatuses : RoomOf(status)

Next ==
    \/ \E c \in Conns, token \in Tokens : Connect(c, token)
          /\ UNCHANGED cvars
    \/ \E c \in Conns, ok \in BOOLEAN : HandshakeOnline(c, ok)
          /\ UNCHANGED cvars
    \/ \E c \in Conns, f \in Inbound : MessageBeforeListener(c, f)
          /\ UNCHANGED cvars
    \/ \E c \in Conns, abnormal \in BOOLEAN : Close(c, abnormal)
          /\ UNCHANGED cvars
    \/ \E c \in Conns, ok \in BOOLEAN : CleanupStatus(c, ok)
          /\ UNCHANGED cvars
    \/ \E c \in Conns, ok \in BOOLEAN : CleanupLastSeen(c, ok)
          /\ UNCHANGED cvars
    \/ \E c \in Conns, f \in Inbound : Receive(c, f)
          /\ UNCHANGED cvars
    \/ \E t \in TaskIds, ok \in BOOLEAN : handleJoinNegotiation(t, ok)
          /\ UNCHANGED cvars
    \/ \E t \in TaskIds, ok \in BOOLEAN : handleNegotiationMessage(t, ok)
          /\ UNCHANGED cvars
    \/ \E t \in TaskIds, ok \in BOOLEAN : handleNegotiationOffer(t, ok)
          /\ UNCHANGED cvars
    \/ \E t \in TaskIds, ok \in BOOLEAN : handleNegotiationCounter(t, ok)
          /\ UNCHANGED cvars
    \/ \E t \in TaskIds, ok \in BOOLEAN : handleNegotiationAccept(t, ok)
          /\ UNCHANGED cvars
    \/ \E t \in TaskIds, ok \in BOOLEAN : handleNegotiationReject(t, ok)
          /\ UNCHANGED cvars
    \/ \E t \in TaskIds, ok \in BOOLEAN : handleNegotiationStatus(t, ok)
          /\ UNCHANGED cvars
    \/ \E t \in TaskIds, ok \in BOOLEAN : handlePresenceUpdate(t, ok)
          /\ UNCHANGED cvars
    \/ \E t \in TaskIds, ok \in BOOLEAN : handlePresenceRequest(t, ok)
          /\ UNCHANGED cvars

Spec == Init /\ [][Next]_vars
SpecRoom == InitRoom /\ [][Next]_vars
SpecStored == InitStored /\ [][Next]_vars

\* the client manager, from its construction
SpecClient == Init /\ [][NextClient]_vars

\* the client manager while the network is healthy: every token request is
\* answered with a token, a socket that is connecting opens, and a socket
\* closes only after the manager has closed it.  Timers fire, requests
\* return and sockets open eventually.
SocketClosedByManager(s) ==
    /\ s \in DOMAIN client.sockets
    /\ client.sockets[s].readyState = "CLOSING"
    /\ SocketCloses(s, FALSE)

NextClientHealthy ==
    \/ CallConnect
    \/ CallDisconnect
    \/ \E n \in ClientNegIds : CallJoinNegotiation(n)
    \/ \E n \in ClientNegIds : CallLeaveNegotiation(n)
    \/ VisibilityChange
    \/ ReconnectTimeoutFires
    \/ TokenRefreshTimeoutFires
    \/ \E i \in 1..MaxRequests : TokenResponse(i, TRUE)
    \/ \E s \in 1..MaxSockets : SocketOpens(s)
    \/ \E s \in 1..MaxSockets : SocketClosedByManager(s)
    \/ \E d \in TickSteps : Tick(d)

SpecClientLive ==
    /\ Init
    /\ [][NextClientHealthy]_vars
    /\ WF_vars(ReconnectTimeoutFires)
    /\ WF_vars(\E i \in 1..MaxRequests : TokenResponse(i, TRUE))
    /\ \A s \in 1..MaxSockets : WF_vars(SocketOpens(s))

\* the hook over the client manager, from the manager's construction
SpecHook == Init /\ [][NextHook]_vars

\* ------------------------------------------------------------- properties
IsParticipant(userId, negotiationId) ==
    /\ negotiationId \in DOMAIN negotiations
    /\ userId \in {negotiations[negotiationId].buyerId,
                   negotiations[negotiationId].sellerId}

\* the frames ws.send was called with while handling frame t, in order
FramesBy(t) == SelectSeq(sent, LAMBDA f : f.by = t)

\* this step is a step of the handler of frame t (its arrival included)
Stepped(t) ==
    /\ t \in DOMAIN tasks'
    /\ t \notin DOMAIN tasks \/ tasks'[t] # tasks[t]

\* this step appends exactly one error frame, addressed to t's sender only
OneErrorToSender(t) ==
    /\ Len(sent') = Len(sent) + 1
    /\ SubSeq(sent', 1, Len(sent)) = sent
    /\ sent'[Len(sent')].type = "error"
    /\ sent'[Len(sent')].to = {tasks'[t].conn}
    /\ sent'[Len(sent')].by = t

AcceptBroadcasts(n) ==
    {i \in DOMAIN sent : /\ sent[i].type = "negotiation_update"
                         /\ sent[i].messageType = "accept"
                         /\ sent[i].negotiationId = n}

\* C1: once the stored status of a negotiation is completed or cancelled, no
\* step changes its stored currentOffer.
C1_TerminalOfferFrozen ==
    [][\A n \in DOMAIN negotiations :
          negotiations[n].status \in Terminal
          => negotiations'[n].currentOffer = negotiations[n].currentOffer]_vars

\* C2: the stored status changes only by the update of an accept frame
\* (active to completed) or of a status_change frame (a non-terminal status
\* to the requested one); a completed or cancelled status never changes.
C2_StatusEdges ==
    [][\A n \in DOMAIN negotiations :
          negotiations'[n].status # negotiations[n].status
          => /\ negotiations[n].status \notin Terminal
             /\ \E t \in TaskIds :
                   /\ tasks[t].negotiationId = n
                   /\ tasks[t].pc = "update"
                   /\ tasks'[t].pc = "createMessage"
                   /\ \/ /\ tasks[t].type = "negotiation_accept"
                         /\ negotiations[n].status = "active"
                         /\ negotiations'[n].status = "completed"
                      \/ /\ tasks[t].type = "negotiation_status"
                         /\ negotiations'[n].status = tasks[t].status]_vars

\* C3: a connection of a user who is neither buyer nor seller of N is never
\* in N's room and is never a recipient of a negotiation_update for N; its
\* join_negotiation(N) is answered with the access-denied error frame and
\* nothing else (with the join-failed error frame when the storage read
\* threw).
C3_OutsiderExcluded ==
    /\ \A n \in DOMAIN negotiationRooms : \A c \in negotiationRooms[n] :
          IsParticipant(conn[c].userId, n)
    /\ \A i \in DOMAIN sent :
          sent[i].type = "negotiation_update"
          => \A c \in sent[i].to :
                IsParticipant(conn[c].userId, sent[i].negotiationId)
    /\ \A t \in TaskIds :
          /\ tasks[t].type = "join_negotiation"
          /\ wsMessageSchema(tasks[t])
          /\ tasks[t].pc = "done"
          /\ ~IsParticipant(UserOf(t), tasks[t].negotiationId)
          => FramesBy(t) = << ErrorFrame(tasks[t].conn, t,
                                 IF tasks[t].threw
                                 THEN "Failed to join negotiation"
                                 ELSE "Access denied to this negotiation") >>

C3_Witness ==
    \E t \in TaskIds :
        /\ tasks[t].type = "join_negotiation"
        /\ tasks[t].pc = "done"
        /\ ~tasks[t].threw
        /\ ~IsParticipant(UserOf(t), tasks[t].negotiationId)
        /\ \E i \in DOMAIN sent :
              sent[i] = ErrorFrame(tasks[t].conn, t,
                                   "Access denied to this negotiation")

\* C4: every step of the handler of a mutating frame sent by a user who is
\* neither buyer nor seller leaves the negotiations and the message log
\* unchanged and sends nothing, except that the step that ends the handler
\* sends one error frame to the sender only.
C4_OutsiderMutationRefused ==
    [][\A t \in DOMAIN tasks' :
          /\ Stepped(t)
          /\ tasks'[t].type \in MutatingTypes
          /\ ~IsParticipant(conn[tasks'[t].conn].userId,
                            tasks'[t].negotiationId)
          => /\ negotiations' = negotiations
             /\ messages' = messages
             /\ IF tasks'[t].pc = "done"
                THEN OneErrorToSender(t)
                ELSE sent' = sent /\ tasks'[t].pc = "validate"]_vars

C4_Witness ==
    \E t \in TaskIds :
        /\ tasks[t].type = "negotiation_offer"
        /\ tasks[t].pc = "done"
        /\ ~IsParticipant(UserOf(t), tasks[t].negotiationId)
        /\ Len(FramesBy(t)) = 1
        /\ FramesBy(t)[1].type = "error"
        /\ messages = << >>

\* C5: a connection is in the user map, was sent connection_confirmed or had
\* a frame dispatched only if its handshake token verified and yielded the
\* userId attached to it; a handshake with a missing, invalid, expired or
\* userId-less token leaves the connection closed, in no registry map, and
\* changes neither map.
InRegistry(c) ==
    \/ \E u \in DOMAIN userSockets : c \in userSockets[u]
    \/ \E n \in DOMAIN negotiationRooms : c \in negotiationRooms[n]

Confirmed(c) ==
    \E i \in DOMAIN sent : sent[i].type = "connection_confirmed" /\ c \in sent[i].to

Dispatched(c) == \E t \in TaskIds : tasks[t].conn = c

C5Inv ==
    \A c \in Conns :
        /\ InRegistry(c) \/ Confirmed(c) \/ Dispatched(c)
           => /\ conn[c].token \in Users
              /\ conn[c].userId = conn[c].token
              /\ conn[c].isAuthenticated
        /\ conn[c].pc # "idle" /\ conn[c].token \notin Users
           => conn[c].readyState = "CLOSED" /\ ~InRegistry(c)

C5_AuthBeforeRegistry ==
    [][/\ C5Inv'
       /\ \A c \in Conns :
             /\ conn[c].pc = "idle"
             /\ conn'[c].pc # "idle"
             /\ conn'[c].token \notin Users
             => /\ userSockets' = userSockets
                /\ negotiationRooms' = negotiationRooms
                /\ sent' = sent]_vars

C5_Witness ==
    /\ \E c \in Conns :
          /\ conn[c].token = "expired"
          /\ conn[c].readyState = "CLOSED"
          /\ conn[c].closeReason = "Authentication failed"
    /\ \E c \in Conns : conn[c].token \in Users /\ InRegistry(c) /\ Confirmed(c)

C9_OneAcceptBroadcast ==
    \A n \in DOMAIN negotiations :
        /\ Cardinality(AcceptBroadcasts(n)) <= 1
        /\ Cardinality({i \in DOMAIN messages :
                           /\ messages[i].negotiationId = n
                           /\ messages[i].messageType = "accept"}) <= 1

\* C10: a reject frame of a participant on an active negotiation passes the
\* access check, appends one reject row, and broadcasts that row to the open
\* sockets of the room (unless a storage call threw); no step of its handler
\* changes the negotiation's status or currentOffer.
C10_RejectKeepsState ==
    [][\A t \in TaskIds :
          Stepped(t) /\ tasks[t].type = "negotiation_reject"
          => LET n == tasks[t].negotiationId
                 row == [id |-> Len(messages) + 1, negotiationId |-> n,
                         senderId |-> UserOf(t), messageType |-> "reject",
                         amount |-> 0]
                 to == IF n \in DOMAIN negotiationRooms
                       THEN {c \in negotiationRooms[n] :
                                conn[c].readyState = "OPEN"}
                       ELSE {}
             IN
             /\ negotiations' = negotiations
             /\ tasks'[t].threw
                \/ CASE tasks[t].pc = "validate" ->
                          /\ IsParticipant(UserOf(t), n)
                             /\ negotiations[n].status = "active"
                             => tasks'[t].pc = "createMessage"
                          /\ messages' = messages
                       [] tasks[t].pc = "createMessage" ->
                          /\ messages' = Append(messages, row)
                          /\ tasks'[t].msgId = row.id
                          /\ tasks'[t].pc = "getUser"
                          /\ sent' = sent
                       [] tasks[t].pc = "getUser" ->
                          /\ tasks'[t].pc = "done"
                          /\ messages' = messages
                          /\ sent' = IF to = {} THEN sent
                                     ELSE Append(sent,
                                            [Frame("negotiation_update", to, t,
                                                   n, "reject", tasks[t].msgId,
                                                   0, "")
                                             EXCEPT !.senderId = UserOf(t)])
                       [] OTHER -> FALSE]_vars

C10_Witness ==
    \E t \in TaskIds :
        /\ tasks[t].type = "negotiation_reject"
        /\ tasks[t].pc = "done"
        /\ ~tasks[t].threw
        /\ negotiations[tasks[t].negotiationId].status = "active"
        /\ \E i \in DOMAIN messages :
              /\ messages[i].id = tasks[t].msgId
              /\ messages[i].messageType = "reject"
        /\ \E i \in DOMAIN sent :
              /\ sent[i].type = "negotiation_update"
              /\ sent[i].messageType = "reject"
              /\ sent[i].id = tasks[t].msgId
              /\ sent[i].to = {"c1", "c2"}

\* the positions in the outbound log s of the presence_update broadcasts
\* about user u
PresenceBroadcasts(s, u) ==
    {i \in DOMAIN s : s[i].type = "presence_update" /\ s[i].error = u}

\* C11: a step broadcasts at most one presence_update about a user, and only
\* when it takes the user's connection count from 0 to 1 (the handshake of
\* the user's only registered connection announces "online") or from 1 to 0
\* (the cleanup of the user's last connection announces "offline" while no
\* connection of the user is registered); never while the count moves
\* between positive values or does not move.
C11_PresenceOncePerTransition ==
    [][\A u \in Users :
          LET new == PresenceBroadcasts(sent', u) \ DOMAIN sent IN
          /\ Cardinality(new) <= 1
          /\ \A i \in new :
                \E c \in Conns :
                    /\ conn[c].userId = u
                    /\ IF sent'[i].messageType = "online"
                       THEN /\ conn[c].pc = "hs_online"
                            /\ conn'[c].pc = "attached"
                            /\ u \in DOMAIN userSockets
                            /\ userSockets[u] = {c}
                       ELSE /\ conn[c].cl = "cl_lastseen"
                            /\ conn'[c].cl = "done"
                            /\ u \notin DOMAIN userSockets]_vars

\* no handshake, cleanup or presence handler is in progress
PresenceQuiescent ==
    /\ \A c \in Conns :
          conn[c].pc # "hs_online" /\ conn[c].cl \notin {"cl_status",
                                                         "cl_lastseen"}
    /\ \A t \in TaskIds :
          tasks[t].type = "presence_update" => tasks[t].pc = "done"

\* none of the presence writes threw
PresenceWritesDone ==
    /\ \A c \in Conns : ~conn[c].threw
    /\ \A t \in TaskIds : tasks[t].type = "presence_update" => ~tasks[t].threw

\* C12: whenever no handshake, cleanup or presence handler is in progress
\* (and no presence write threw), the persisted isOnline of every user is
\* true exactly when the user map holds a connection of that user.
C12_OnlineIffRegistered ==
    PresenceQuiescent /\ PresenceWritesDone
    => \A u \in Users :
          isOnline[u] <=> (u \in DOMAIN userSockets /\ userSockets[u] # {})

\* nothing of connection c is in progress: its handshake is over, its
\* cleanup is not between two awaits, and every handler of its frames ended
Settled(c) ==
    /\ conn[c].pc # "hs_online"
    /\ conn[c].cl \notin {"cl_status", "cl_lastseen"}
    /\ \A t \in TaskIds : tasks[t].conn = c => tasks[t].pc = "done"

\* C13: a connection whose transport has closed, and of which no handshake,
\* cleanup or frame handler is still in progress, is in neither the user map
\* nor any room.  (Nothing but its own cleanup removes a closed connection,
\* so a state that breaks this keeps the connection registered for ever.)
C13_ClosedConnectionRemoved ==
    \A c \in Conns :
        conn[c].readyState = "CLOSED" /\ Settled(c) => ~InRegistry(c)

\* the members of the room of n in the room map m
RoomMembers(m, n) == IF n \in DOMAIN m THEN m[n] ELSE {}

RowsOf(f) ==
    {j \in DOMAIN messages : /\ messages[j].id = f.id
                             /\ messages[j].negotiationId = f.negotiationId
                             /\ messages[j].senderId = f.senderId
                             /\ messages[j].messageType = f.messageType
                             /\ messages[j].amount = f.amount}

\* C15: every negotiation_update in the outbound log carries exactly one row
\* of the message log (same id, senderId, kind and amount), the row being in
\* the log when the frame is sent, and no two negotiation_update frames
\* carry the same row id.
C15_BroadcastMatchesRow ==
    \A i \in DOMAIN sent :
        sent[i].type = "negotiation_update"
        => /\ Cardinality(RowsOf(sent[i])) = 1
           /\ \A k \in DOMAIN sent :
                 /\ k # i
                 /\ sent[k].type = "negotiation_update"
                 => sent[k].id # sent[i].id

\* the outbound log s holds no negotiation_update sent by the handler of t
NoUpdateBy(t, s) ==
    \A i \in DOMAIN s : s[i].type = "negotiation_update" => s[i].by # t

\* a storage call made by the handler of the mutating frame t throws in
\* this step
Throws(t) ==
    /\ tasks[t].type \in MutatingTypes
    /\ ~tasks[t].threw
    /\ tasks'[t].threw

BothInRoom(n) ==
    LET members == RoomMembers(negotiationRooms, n) IN
    /\ \E c \in members : conn[c].userId = negotiations[n].buyerId
    /\ \E c \in members : conn[c].userId = negotiations[n].sellerId
    /\ \A c \in members : conn[c].readyState = "OPEN"

\* C17: for an offer(a) of the buyer on an active negotiation N none of
\* whose storage calls throws: the access check passes, the update sets
\* N.currentOffer = a, and, the buyer's and the seller's connections being
\* members of N's room with open transports, the handler's last step sends
\* one negotiation_update of kind offer with amount a to all the members,
\* the sender's connection included; no other step of the handler sends
\* anything.
C17_OfferReachesRoom ==
    [][\A t \in TaskIds :
          /\ Stepped(t)
          /\ tasks[t].type = "negotiation_offer"
          /\ UserOf(t) = negotiations[tasks[t].negotiationId].buyerId
          /\ ~tasks'[t].threw
          => LET n == tasks[t].negotiationId
                 a == tasks[t].amount
                 members == RoomMembers(negotiationRooms, n)
             IN CASE tasks[t].pc = "validate" ->
                       negotiations[n].status = "active"
                       => tasks'[t].pc = "update" /\ sent' = sent
                  [] tasks[t].pc = "update" ->
                       /\ negotiations'[n].currentOffer = a
                       /\ sent' = sent
                  [] tasks[t].pc = "createMessage" -> sent' = sent
                  [] tasks[t].pc = "getUser" ->
                       BothInRoom(n)
                       => /\ tasks[t].conn \in members
                             => sent' = Append(sent,
                                   [Frame("negotiation_update", members, t, n,
                                          "offer", tasks[t].msgId, a, "")
                                    EXCEPT !.senderId = UserOf(t)])
                          /\ tasks'[t].pc = "done"
                  [] OTHER -> FALSE]_vars

\* the positions in the outbound log of the negotiation_update broadcasts
\* sent by the handler of frame t
UpdatesBy(t) ==
    {i \in DOMAIN sent : sent[i].type = "negotiation_update" /\ sent[i].by = t}

\* C18: of two frames that arrived on the same connection and were both
\* broadcast to the same room, the one that arrived first was broadcast
\* first.
C18_BroadcastsInArrivalOrder ==
    \A t1, t2 \in TaskIds :
        /\ t1 < t2
        /\ tasks[t1].conn = tasks[t2].conn
        /\ tasks[t1].negotiationId = tasks[t2].negotiationId
        => \A i \in UpdatesBy(t1), j \in UpdatesBy(t2) : i < j

\* C19: a frame whose text parses and whose type is none of the known kinds
\* is answered with one error frame that reads "Unknown message type: "
\* followed by the received type, and the connection it came in on is not
\* closed by the answer.
C19_UnknownTypeNamed ==
    \A t \in TaskIds :
        tasks[t].json /\ tasks[t].type \notin KnownTypes
        => FramesBy(t) = << ErrorFrame(tasks[t].conn, t,
                               "Unknown message type: " \o tasks[t].type) >>

\* the frames the schema must refuse: text that is no JSON, no
\* negotiationId on a negotiation kind, an amount that is not positive, chat
\* content that is empty or longer than 1000 characters
Malformed(f) ==
    \/ ~f.json
    \/ f.type \in NegotiationTypes /\ f.negotiationId = Absent
    \/ f.type \in {"negotiation_offer", "negotiation_counter"} /\ f.amount <= 0
    \/ f.type = "negotiation_message" /\ (f.content < 1 \/ f.content > 1000)

\* C20: the step in which a malformed frame arrives ends its handling: it
\* sends exactly one error frame, to the sender only, and changes no
\* connection, neither registry map, no negotiation, no message row and no
\* presence state.
C20_MalformedFrameOneError ==
    [][\A t \in DOMAIN tasks' \ DOMAIN tasks :
          Malformed(tasks'[t])
          => /\ OneErrorToSender(t)
             /\ tasks'[t].pc = "done"
             /\ conn' = conn
             /\ userSockets' = userSockets
             /\ negotiationRooms' = negotiationRooms
             /\ negotiations' = negotiations
             /\ messages' = messages
             /\ isOnline' = isOnline]_vars

\* the buyer has sent text that is no JSON and an offer with amount 0: two
\* error frames, and the server is as it was
C20_Witness ==
    /\ Len(tasks) = 2
    /\ ~tasks[1].json
    /\ tasks[2].type = "negotiation_offer" /\ tasks[2].amount = 0
    /\ tasks[1].conn = "c1" /\ tasks[2].conn = "c1"
    /\ sent = << ErrorFrame("c1", 1, "Invalid message format"),
                 ErrorFrame("c1", 2, "Invalid message format") >>
    /\ conn["c1"].readyState = "OPEN"
    /\ "c1" \in userSockets["U1"]
    /\ "c1" \in negotiationRooms["N1"]
    /\ negotiations["N1"].currentOffer = 0
    /\ messages = << >>

\* the users with at least one registered connection
ConnectedUsers == {u \in Users : \E c \in Conns : u \in DOMAIN userSockets
                                                  /\ c \in userSockets[u]}

\* the persisted presence rows of a set of users
PresenceRows(S) == {[userId |-> u, isOnline |-> isOnline[u]] : u \in S \cap Users}

\* C21: a presence request is answered to the requesting connection only.
\* When the frame arrives the users asked for are the frame's userIds or,
\* without userIds, the users connected at that moment, and nothing is
\* sent; when the storage read returns, exactly one frame is sent, to the
\* requester alone: presence_data with the presence rows of exactly those
\* users (or one error frame if the read threw).  Neither step changes
\* persisted presence or a registry map.
C21_PresenceRequestToRequesterOnly ==
    [][\A t \in DOMAIN tasks' :
          (tasks'[t].type = "request_presence" /\ Stepped(t))
          => /\ isOnline' = isOnline
             /\ userSockets' = userSockets
             /\ negotiationRooms' = negotiationRooms
             /\ t \notin DOMAIN tasks
                => /\ sent' = sent
                   /\ tasks'[t].pc = "getUsersOnlineStatus"
                   /\ tasks'[t].targetUserIds =
                         IF tasks'[t].userIds = << >> THEN ConnectedUsers
                         ELSE tasks'[t].userIds[1]
             /\ t \in DOMAIN tasks
                => /\ tasks'[t].pc = "done"
                   /\ Len(sent') = Len(sent) + 1
                   /\ SubSeq(sent', 1, Len(sent)) = sent
                   /\ sent'[Len(sent')].to = {tasks[t].conn}
                   /\ sent'[Len(sent')].by = t
                   /\ IF tasks'[t].threw
                      THEN sent'[Len(sent')].type = "error"
                      ELSE /\ sent'[Len(sent')].type = "presence_data"
                           /\ sent'[Len(sent')].users =
                                 PresenceRows(tasks[t].targetUserIds)]_vars

\* the outsider U3 asked for everybody's presence without userIds and for
\* U2's presence by id: two presence_data frames to c3 alone, the first
\* with the rows of the three connected users, the second with U2's row
C21_Witness ==
    /\ Len(tasks) = 2 /\ Len(sent) = 2
    /\ tasks[1].conn = "c3" /\ tasks[1].userIds = << >> /\ tasks[1].pc = "done"
    /\ tasks[2].conn = "c3" /\ tasks[2].userIds = << {"U2"} >>
    /\ tasks[2].pc = "done"
    /\ sent[1].type = "presence_data" /\ sent[1].to = {"c3"}
    /\ sent[1].users = {[userId |-> u, isOnline |-> TRUE] : u \in Users}
    /\ sent[2].type = "presence_data" /\ sent[2].to = {"c3"}
    /\ sent[2].users = {[userId |-> "U2", isOnline |-> TRUE]}

\* C22: neither registry map holds an empty set: a room entry exists only
\* while a connection is subscribed to it, a user entry only while the user
\* has a registered connection, so the connected-user list is exactly the
\* users with one or more registered connections.
C22_NoEmptyRegistrySet ==
    /\ \A n \in DOMAIN negotiationRooms : negotiationRooms[n] # {}
    /\ \A u \in DOMAIN userSockets : userSockets[u] # {}
    /\ getConnectedUsers =
          {u \in Users : \E c \in Conns : u \in DOMAIN userSockets
                                          /\ c \in userSockets[u]}

\* the buyer has left the room and the seller's only connection has closed
\* and been cleaned up: the room of N1 and the user entry of U2 are gone
C22_Witness ==
    /\ "N1" \notin DOMAIN negotiationRooms
    /\ "U2" \notin DOMAIN userSockets
    /\ conn["c2"].readyState = "CLOSED"
    /\ conn["c1"].readyState = "OPEN"
    /\ getConnectedUsers = {"U1", "U3"}

\* ------------------------------------------------ properties of the client
Status(k) == k.connectionState.status
LiveSockets(k) ==
    {s \in DOMAIN k.sockets : k.sockets[s].readyState \in {"CONNECTING", "OPEN"}}

\* C23: while the manager is user-disconnected (from disconnect() until the
\* next connect()) no step creates a socket, arms the reconnect timer or
\* leaves the status at connecting, reconnecting or connected, also when
\* disconnect() was called while a connection attempt awaited its token.
C23_DisconnectSuppressesReconnect ==
    [][(client.isUserDisconnected /\ client'.isUserDisconnected)
       => /\ Len(client'.sockets) = Len(client.sockets)
          /\ client'.reconnectTimeout.pending => client.reconnectTimeout.pending
          /\ Status(client') \notin {"connecting", "reconnecting", "connected"}]_vars

RetryCount(k) == k.connectionState.retryCount

\* base 1000 ms doubled per attempt, at most the ceiling of 30000 ms
Backoff(attempt) ==
    IF 1000 * (2 ^ attempt) < 30000 THEN 1000 * (2 ^ attempt) ELSE 30000

\* C24: a socket close while the manager is not user-disconnected adds
\* exactly 1 to the retry counter and leaves one reconnect timer pending
\* whose delay is min(1000 * 2^attempt, 30000) ms, attempt being the counter
\* after the increment; the delay is at most 30000 ms and not smaller than
\* the delay of the failure before it; a socket open sets the counter to 0.
C24_BackoffPerClose ==
    [][\A s \in DOMAIN client.sockets :
          /\ (/\ client.sockets[s].readyState # "CLOSED"
              /\ client'.sockets[s].readyState = "CLOSED"
              /\ ~client.isUserDisconnected)
             => /\ RetryCount(client') = RetryCount(client) + 1
                /\ client'.reconnectTimeout =
                      [set |-> TRUE, pending |-> TRUE,
                       at |-> Backoff(RetryCount(client'))]
                /\ client'.reconnectTimeout.at <= 30000
                /\ RetryCount(client) >= 1
                   => client'.reconnectTimeout.at >= client.reconnectTimeout.at
          /\ (/\ client.sockets[s].readyState = "CONNECTING"
              /\ client'.sockets[s].readyState = "OPEN")
             => RetryCount(client') = 0]_vars

\* four token requests in a row failed and the socket of the fifth attempt
\* closed before it opened: the fifth retry waits the ceiling of 30000 ms
C24_Witness ==
    /\ clock = 0
    /\ client.issued = 1
    /\ Len(client.sockets) = 1
    /\ client.sockets[1].readyState = "CLOSED"
    /\ ~client.isUserDisconnected
    /\ client.connectionState = [status |-> "reconnecting", retryCount |-> 5]
    /\ client.reconnectTimeout = [set |-> TRUE, pending |-> TRUE, at |-> 30000]

\* the ids in currentNegotiationRooms
JoinedRooms(k) == {k.currentNegotiationRooms[i] : i \in DOMAIN k.currentNegotiationRooms}

\* the join_negotiation frames for id n that the latest step put on socket s
JoinsOn(k, s, n) ==
    {i \in DOMAIN k.transmitted :
        /\ k.transmitted[i].socket = s
        /\ k.transmitted[i].frame.type = "join_negotiation"
        /\ k.transmitted[i].frame.negotiationId = n}

\* C25: the step in which the socket of the manager's latest connection
\* attempt opens, no other socket of the manager being live, puts on that
\* socket exactly one join_negotiation for every id that is joined and not
\* left, and none for any other id.
C25_RejoinOnEveryOpen ==
    [][\A s \in DOMAIN client.sockets :
          (/\ client.sockets[s].readyState = "CONNECTING"
           /\ client'.sockets[s].readyState = "OPEN"
           /\ s = Len(client.sockets)
           /\ LiveSockets(client) = {s})
          => \A n \in ClientNegIds :
                Cardinality(JoinsOn(client', s, n)) =
                   IF n \in JoinedRooms(client) THEN 1 ELSE 0]_vars

\* the sockets created by this step
NewSockets == DOMAIN client'.sockets \ DOMAIN client.sockets

\* C26: a socket is created with the manager's token, and that token is
\* either the one the manager held, its recorded expiry more than the
\* 2-minute margin after the time of the step (reused after the check), or
\* a token acquired in this very step by a request of the attempt, its
\* recorded expiry more than the margin after the time the request was
\* issued; a held token that is expired or within the margin is not reused.
C26_SocketTokenFresh ==
    [][\A s \in NewSockets :
          /\ client'.sockets[s].token = client'.token
          /\ client'.token # Null
          /\ \/ /\ client'.token = client.token
                /\ client.tokenExpiresAt > clock + 2
             \/ /\ client'.token = client.issued + 1
                /\ client'.issued = client.issued + 1
                /\ \E i \in DOMAIN client.requests :
                      client'.tokenExpiresAt > client.requests[i].now + 2]_vars

\* the token of the first socket came within the margin while connected,
\* the refresh timer did not fire, the socket closed, and the reconnect
\* acquired token 2 before it created the second socket
C26_Witness ==
    /\ clock = 13
    /\ Len(client.sockets) = 2
    /\ client.sockets[1] = [readyState |-> "CLOSED", token |-> 1]
    /\ client.sockets[2].token = 2
    /\ client.token = 2 /\ client.tokenExpiresAt = 28
    /\ client.tokenRefreshTimeout = [set |-> TRUE, pending |-> TRUE, at |-> 26]
    /\ client.ws = 2
    /\ client.reconnectTimeout = [set |-> TRUE, pending |-> FALSE, at |-> 2000]
    /\ events = 2

\* this step is the return, with a token, of a request that refreshToken
\* awaited while the manager was connected on a socket
RefreshAcquired ==
    /\ isConnected(client)
    /\ client.ws # Null
    /\ client'.issued = client.issued + 1
    /\ \E i \in DOMAIN client.requests :
          /\ client.requests[i].by = "refreshToken"
          /\ \/ client'.requests = RemoveAt(client.requests, i)
             \/ client'.requests =
                   Append(RemoveAt(client.requests, i),
                          [by |-> "establishConnection", now |-> clock])

\* the manager has closed the socket that carried token old and waits for
\* its new socket, which carries a later token, to open
Reconnecting(old) ==
    /\ ~client.isUserDisconnected
    /\ Status(client) = "connecting"
    /\ client.ws # Null
    /\ client.sockets[client.ws].readyState = "CONNECTING"
    /\ client.sockets[client.ws].token > old
    /\ \E o \in DOMAIN client.sockets :
          /\ o < client.ws
          /\ client.sockets[o].readyState = "CLOSING"
          /\ client.sockets[o].token = old

\* the manager is connected and a socket of it is open with a token later
\* than old
ConnectedAfter(old) ==
    /\ ~client.isUserDisconnected
    /\ Status(client) = "connected"
    /\ \E s \in DOMAIN client.sockets :
          /\ client.sockets[s].readyState = "OPEN"
          /\ client.sockets[s].token > old

C28_AtMostOneLiveSocket == Cardinality(LiveSockets(client)) <= 1

\* the sockets that fire an open or close event in this step
Fired == {s \in DOMAIN client.sockets :
             client'.sockets[s].readyState # client.sockets[s].readyState
             /\ client'.sockets[s].readyState \in {"OPEN", "CLOSED"}}

\* socket s has been superseded: a later connection attempt created a socket
Superseded(s) == s < Len(client.sockets)

\* C29: an open or close event (with or without its error event) of a
\* socket superseded by a later connection attempt changes neither the
\* connection state nor the retry counter, does not clear the reference to
\* the current socket and arms no reconnect timer.
C29_SupersededEventsDiscarded ==
    [][\A s \in Fired :
          Superseded(s)
          => /\ client'.connectionState = client.connectionState
             /\ client'.ws = client.ws
             /\ client'.reconnectTimeout = client.reconnectTimeout]_vars

\* a connection attempt is under way: a token request is awaited or a
\* socket is connecting
AttemptUnderWay(k) ==
    k.requests # << >>
    \/ \E s \in DOMAIN k.sockets : k.sockets[s].readyState = "CONNECTING"

\* this step is the failed return of a token request
AcquisitionFails ==
    /\ client'.issued = client.issued
    /\ \E i \in DOMAIN client.requests :
          client'.requests = RemoveAt(client.requests, i)

\* C30: when a token request fails while the application has not called
\* disconnect() (the manager is not user-disconnected when the request
\* returns), the step leaves the manager not user-disconnected and with a
\* retry to come: a reconnect timer is pending or another connection
\* attempt is under way.  It is not left in disconnected or error with
\* nothing pending.
C30_AcquisitionFailureRetries ==
    [][(AcquisitionFails /\ ~client.isUserDisconnected)
       => /\ ~client'.isUserDisconnected
          /\ client'.reconnectTimeout.pending \/ AttemptUnderWay(client')]_vars

\* C31: a step in which the page becomes visible starts a connection
\* attempt at once (status connecting, and a token request issued or a
\* socket created in that very step, whatever the reconnect timer) when the
\* manager is neither connected nor connecting nor user-disconnected;
\* otherwise it changes no field of the manager.
C31_VisibleReconnectsAtOnce ==
    [][VisibilityChange
       => IF /\ ~client.isUserDisconnected
             /\ Status(client) \notin {"connected", "connecting"}
          THEN /\ Status(client') = "connecting"
               /\ ~client'.isUserDisconnected
               /\ \/ Len(client'.sockets) = Len(client.sockets) + 1
                  \/ Len(client'.requests) = Len(client.requests) + 1
          ELSE client' = [client EXCEPT !.transmitted = << >>]]_vars

\* the page became visible while the manager waited for the 2000 ms backoff
\* timer after a failed token request: the attempt is under way although the
\* timer has not fired
C31_Witness ==
    /\ events = 2
    /\ Status(client) = "connecting"
    /\ RetryCount(client) = 1
    /\ client.reconnectTimeout = [set |-> TRUE, pending |-> TRUE, at |-> 2000]
    /\ Len(client.requests) = 1
    /\ client.sockets = << >>


\* C35: whenever the manager is connected and no refreshToken call is waiting
\* for its token, the proactive token-refresh timer is pending, due two
\* minutes before the expiry of the token in use or later by the latency of
\* the token request
RefreshUnderWay(k) ==
    \E i \in DOMAIN k.requests : k.requests[i].by = "refreshToken"

C35_RefreshTimerPendingWhileConnected ==
    Status(client) = "connected" /\ ~RefreshUnderWay(client)
        => /\ client.tokenRefreshTimeout.pending
           /\ client.tokenRefreshTimeout.at >= client.tokenExpiresAt - TokenBuffer


\* C36: whenever the manager's status is connected, this.ws refers to a
\* socket that is open and the retry counter is 0
C36_ConnectedHoldsOpenSocket ==
    Status(client) = "connected"
        => /\ client.ws # Null
           /\ client.sockets[client.ws].readyState = "OPEN"
           /\ RetryCount(client) = 0


\* C37: every connection that is a member of a room, and whose cleanup is
\* not between its two steps (the registry entry is removed before the
\* storage awaits of cleanupWebSocket and the rooms after them), is
\* registered in userSockets under its userId
C37_RoomMembersRegistered ==
    \A n \in DOMAIN negotiationRooms : \A c \in negotiationRooms[n] :
        conn[c].cl \in {"none", "done"}
            => /\ conn[c].userId \in DOMAIN userSockets
               /\ c \in userSockets[conn[c].userId]


\* C38: once every handler has run to its end, a negotiation whose
\* currentOffer has been changed has an offer or counter row with that
\* amount in its message log, and a negotiation whose status has been
\* changed has an accept or status row
RowOf(n, types) ==
    {i \in DOMAIN messages : /\ messages[i].negotiationId = n
                             /\ messages[i].messageType \in types}

C38_StateAndLogChangeTogether ==
    (\A t \in TaskIds : tasks[t].pc = "done")
        => \A n \in DOMAIN negotiations :
              /\ negotiations[n].currentOffer # 0
                    => \E i \in RowOf(n, {"offer", "counter"}) :
                          messages[i].amount = negotiations[n].currentOffer
              /\ negotiations[n].status # "active"
                    => RowOf(n, {"accept", "status"}) # {}


\* C39: a step of the handler of a chat, offer, counter or reject frame,
\* taken while the stored status of the frame's negotiation is completed or
\* cancelled, appends no row to the message log and sends no
\* negotiation_update frame (accept and status frames are left out: the
\* frame that closes the negotiation logs and announces the closing itself)
C39_TerminalNegotiationSilent ==
    [][\A t \in TaskIds :
          /\ Stepped(t)
          /\ tasks[t].type \in {"negotiation_message", "negotiation_offer",
                                "negotiation_counter", "negotiation_reject"}
          /\ tasks[t].negotiationId \in DOMAIN negotiations
          /\ negotiations[tasks[t].negotiationId].status
                \in {"completed", "cancelled"}
          => messages' = messages /\ NoUpdateBy(t, sent')]_vars


\* C33: every frame that arrives on an open transport is handed to
\* handleWebSocketMessage: no 'message' event is emitted while no listener
\* is attached
C33_NoFrameUnheard == \A c \in Conns : conn[c].unheard = 0


\* C32: a call of sendMessage, sendOffer, sendCounter, acceptOffer,
\* rejectOffer or updateNegotiationStatus made while the status is not
\* connected changes no field of the manager and transmits nothing, and a
\* frame of one of these types is transmitted only by the step of the call
\* that built it, made while connected: nothing is kept for a later step
C32_OfflineCallsAreNoOps ==
    [][/\ \A f \in Outbound :
             HookSend(f) /\ Status(client) # "connected"
             => client' = [client EXCEPT !.transmitted = << >>]
       /\ \A i \in DOMAIN client'.transmitted :
             client'.transmitted[i].frame.type \in MutatingTypes
             => /\ Status(client) = "connected"
                /\ Len(client'.transmitted) = 1
                /\ \E f \in Outbound :
                      HookSend(f) /\ client'.transmitted[i].frame = f]_vars

\* the hook has mounted and connect() is waiting for its token; a second
\* call from the application has been made and nothing is on the wire
C32_Witness ==
    /\ hook.mounted
    /\ events = 2
    /\ Status(client) = "connecting"
    /\ Len(client.requests) = 1
    /\ client.sockets = << >>
    /\ client.transmitted = << >>
    /\ clock = 0


\* C40: while the manager is connected and this.ws is an open socket, a call
\* of the hook's requestPresence(userIds) transmits exactly one
\* request_presence frame with these userIds, and a call of
\* updatePresence(isOnline) exactly one presence_update frame for the
\* current user, each in a form that passes wsMessageSchema
OneFrameOnWire(k, type) ==
    /\ Len(k.transmitted) = 1
    /\ k.transmitted[1].frame.type = type
    /\ JSONparse(k.transmitted[1].frame)
    /\ wsMessageSchema(k.transmitted[1].frame)

C40_PresenceCallsTransmitOneFrame ==
    [][/\ Status(client) = "connected"
       /\ client.ws # Null
       /\ client.sockets[client.ws].readyState = "OPEN"
       => /\ \A userIds \in {<< >>, << {"U2"} >>} :
                HookRequestPresence(userIds)
                => /\ OneFrameOnWire(client', "request_presence")
                   /\ client'.transmitted[1].frame.userIds = userIds
          /\ \A online \in BOOLEAN :
                HookUpdatePresence(online)
                => /\ OneFrameOnWire(client', "presence_update")
                   /\ client'.transmitted[1].frame.userId = CurrentUser
                   /\ client'.transmitted[1].frame.isOnline = online]_vars


\* C34: the hook is mounted and has joined the room of its negotiationId
\* (currentNegotiationRef holds it).  When a new socket, the manager's only
\* live one, opens, the manager sends a join_negotiation for that id on it
\* if its joined-room set has the id; and when the set does not have it, the
\* room effect that runs once the hook sees the status connected sends it.
\* The application has made no call since the hook mounted: connections are
\* lost and re-established by the network and the manager alone
HasJoined ==
    /\ events = 1
    /\ hook.mounted
    /\ hook.negotiationId # Absent
    /\ hook.currentNegotiationRef = hook.negotiationId

C34_HookRejoinsAfterReconnect ==
    [][/\ \A s \in 1..MaxSockets :
             /\ SocketOpens(s)
             /\ HasJoined
             /\ s = Len(client.sockets)
             /\ client.ws = s
             /\ LiveSockets(client) = {s}
             /\ hook.negotiationId \in JoinedRooms(client)
             => JoinsOn(client', s, hook.negotiationId) # {}
       /\ /\ RoomEffect
          /\ HasJoined
          /\ Status(client) = "connected"
          /\ client.ws # Null
          /\ client.sockets[client.ws].readyState = "OPEN"
          /\ hook.negotiationId \notin JoinedRooms(client)
          => JoinsOn(client', client.ws, hook.negotiationId) # {}]_vars

====
